---- MODULE Spec2Model ----
(***************************************************************************)
(* Model of the Vortex proof verifier (contracts/sources/vortex.move) and  *)
(* of the client script that builds and submits a proof                    *)
(* (scripts/src/transact.ts).                                              *)
(*                                                                         *)
(* 256-bit integers are modelled exactly: a number is the sequence of its  *)
(* base-256 digits, least significant first, without leading zero digits   *)
(* (so zero is << >>).  An address is a sequence of 32 bytes, most         *)
(* significant first.                                                      *)
(***************************************************************************)
EXTENDS Integers, Sequences, FiniteSets, TLC

\* ------------------------------------------------------------------------
\* Bounds of the model
\* ------------------------------------------------------------------------

\* Sender identities are taken within MaxDelta of every multiple of the
\* field modulus that fits 256 bits, and within MaxDelta of 2^256 - 1.
MaxDelta == 1

\* Multiples k * BN254_FIELD_MODULUS, k in 0 .. MaxMultiple, are sampled
\* (those that do not fit 256 bits are dropped).
MaxMultiple == 2

\* Provers other than the client use witnesses a, b in 0 .. MaxWitness.
MaxWitness == 2

\* The executed transact calls are counted up to MaxCounted (the count
\* stays there afterwards; calls go on).
MaxCounted == 3

\* ------------------------------------------------------------------------
\* Arbitrary-precision naturals (the arithmetic of Move's u256)
\* ------------------------------------------------------------------------

Base == 256

U256Bytes == 32

RECURSIVE Norm(_)
\* Drops the most significant zero digits.
Norm(x) ==
    IF Len(x) = 0 THEN << >>
    ELSE IF x[Len(x)] = 0 THEN Norm(SubSeq(x, 1, Len(x) - 1))
    ELSE x

RECURSIVE FromNat(_)
\* The digits of a small natural number.
FromNat(n) == IF n = 0 THEN << >> ELSE <<n % Base>> \o FromNat(n \div Base)

Digit(x, i) == IF i <= Len(x) THEN x[i] ELSE 0

RECURSIVE LessFrom(_, _, _)
\* x < y on the digits 1 .. i
LessFrom(x, y, i) ==
    IF i = 0 THEN FALSE
    ELSE IF x[i] # y[i] THEN x[i] < y[i]
    ELSE LessFrom(x, y, i - 1)

\* x < y, both without leading zeros
Less(x, y) ==
    IF Len(x) # Len(y) THEN Len(x) < Len(y) ELSE LessFrom(x, y, Len(x))

RECURSIVE AddRec(_, _, _, _)
\* The digits i, i + 1, ... of x + y, given the carry into digit i.
AddRec(x, y, i, carry) ==
    IF i > Len(x) /\ i > Len(y) THEN FromNat(carry)
    ELSE LET s == Digit(x, i) + Digit(y, i) + carry
         IN  <<s % Base>> \o AddRec(x, y, i + 1, s \div Base)

Add(x, y) == Norm(AddRec(x, y, 1, 0))

RECURSIVE SubRec(_, _, _, _)
\* The digits i, i + 1, ... of x - y, given the borrow from digit i.
SubRec(x, y, i, borrow) ==
    IF i > Len(x) THEN << >>
    ELSE LET s == x[i] - Digit(y, i) - borrow
         IN  IF s < 0
             THEN <<s + Base>> \o SubRec(x, y, i + 1, 1)
             ELSE <<s>> \o SubRec(x, y, i + 1, 0)

\* x - y, for x >= y
Sub(x, y) == Norm(SubRec(x, y, 1, 0))

RECURSIVE MulSmallRec(_, _, _, _)
\* The digits i, i + 1, ... of x * m, given the carry into digit i.
MulSmallRec(x, m, i, carry) ==
    IF i > Len(x) THEN FromNat(carry)
    ELSE LET s == x[i] * m + carry
         IN  <<s % Base>> \o MulSmallRec(x, m, i + 1, s \div Base)

\* x * m for a natural m below 2^22
MulSmall(x, m) == Norm(MulSmallRec(x, m, 1, 0))

\* One digit of the long division: how many times d goes into r, for
\* r < Base * d.
DivDigit(r, d) ==
    IF Less(r, d) THEN [quot |-> 0, rem |-> r]
    ELSE LET q == CHOOSE k \in 1 .. Base - 1 :
                      /\ ~Less(r, MulSmall(d, k))
                      /\ Less(r, MulSmall(d, k + 1))
         IN  [quot |-> q, rem |-> Sub(r, MulSmall(d, q))]

RECURSIVE DivRec(_, _, _)
\* Long division of the digits i .. Len(x) of x, most significant first.
DivRec(x, d, i) ==
    IF i > Len(x) THEN [quot |-> << >>, rem |-> << >>]
    ELSE LET hi == DivRec(x, d, i + 1)
         IN  IF Len(hi.quot) = 0
             THEN LET step == DivDigit(Norm(<<x[i]>> \o hi.rem), d)
                  IN  [quot |-> FromNat(step.quot), rem |-> step.rem]
             ELSE LET step == DivDigit(Norm(<<x[i]>> \o hi.rem), d)
                  IN  [quot |-> <<step.quot>> \o hi.quot, rem |-> step.rem]

\* Quotient and remainder of x by d, for d # 0
DivMod(x, d) == DivRec(x, d, 1)

RECURSIVE SmallDecimal(_, _, _)
\* The number the digits lo .. hi of a decimal literal denote (a few digits).
SmallDecimal(digits, lo, hi) ==
    IF hi < lo THEN 0 ELSE SmallDecimal(digits, lo, hi - 1) * 10 + digits[hi]

RECURSIVE Pow10(_)
Pow10(k) == IF k = 0 THEN 1 ELSE 10 * Pow10(k - 1)

RECURSIVE FromDecimalRec(_, _)
\* The number the first n digits of a decimal literal denote, six digits
\* at a time.
FromDecimalRec(digits, n) ==
    IF n = 0 THEN << >>
    ELSE LET lo == IF n > 6 THEN n - 5 ELSE 1
             prefix == FromDecimalRec(digits, lo - 1)
         IN  IF Len(prefix) = 0 THEN FromNat(SmallDecimal(digits, lo, n))
             ELSE Add(MulSmall(prefix, Pow10(n - lo + 1)),
                      FromNat(SmallDecimal(digits, lo, n)))

\* The number a decimal literal of the source denotes.
FromDecimal(digits) == FromDecimalRec(digits, Len(digits))

\* 2^256 - 1, the largest u256
MaxU256 == SubSeq([i \in 1 .. U256Bytes |-> Base - 1], 1, U256Bytes)

FitsU256(x) == Len(x) <= U256Bytes

\* ------------------------------------------------------------------------
\* vortex.move: constants
\* ------------------------------------------------------------------------

BN254_FIELD_MODULUS ==
    FromDecimal(<<
      2, 1, 8, 8, 8, 2, 4, 2, 8, 7, 1, 8, 3, 9, 2, 7, 5, 2, 2, 2,
      2, 4, 6, 4, 0, 5, 7, 4, 5, 2, 5, 7, 2, 7, 5, 0, 8, 8, 5, 4,
      8, 3, 6, 4, 4, 0, 0, 4, 1, 6, 0, 3, 4, 3, 4, 3, 6, 9, 8, 2,
      0, 4, 1, 8, 6, 5, 7, 5, 8, 0, 8, 4, 9, 5, 6, 1, 7 >>)


\* ------------------------------------------------------------------------
\* Move primitives used by transact
\* ------------------------------------------------------------------------

Reverse(s) == SubSeq([i \in 1 .. Len(s) |-> s[Len(s) + 1 - i]], 1, Len(s))

\* address::to_u256: the address bytes read as a big-endian integer
to_u256(addr) == Norm(Reverse(addr))

\* As U256Div, with the reduction by the divisor left out.
U256DivNoReduce(x, y) ==
    IF Len(y) = 0 THEN [aborted |-> TRUE, value |-> << >>]
    ELSE [aborted |-> FALSE, value |-> x]

\* u256 division of Move: aborts on a zero divisor, cannot overflow
U256Div(x, y) ==
    IF Len(y) = 0 THEN [aborted |-> TRUE, value |-> << >>]
    ELSE [aborted |-> FALSE, value |-> DivMod(x, y).quot]

\* bcs::to_bytes of a u256: 32 bytes, least significant first
bcs_to_bytes(v) == SubSeq([i \in 1 .. U256Bytes |-> Digit(v, i)], 1, U256Bytes)

\* The address whose to_u256 is v
AddressOf(v) == Reverse(bcs_to_bytes(v))

\* ------------------------------------------------------------------------
\* Sender identities of the model
\* ------------------------------------------------------------------------

FieldMultiples ==
    {m \in {MulSmall(BN254_FIELD_MODULUS, k) : k \in 0 .. MaxMultiple} :
        FitsU256(m)}

IdentityValues ==
    {v \in {Add(m, FromNat(d)) : m \in FieldMultiples, d \in 0 .. MaxDelta} :
        FitsU256(v)}
    \cup {Sub(m, FromNat(d)) : m \in FieldMultiples \ {<< >>}, d \in 1 .. MaxDelta}
    \cup {Sub(MaxU256, FromNat(d)) : d \in 0 .. MaxDelta}

Identities == {AddressOf(v) : v \in IdentityValues}

\* ------------------------------------------------------------------------
\* Key material and proofs
\* ------------------------------------------------------------------------

\* The circuit this repository proves (a * b = c) and some other circuit.
VortexCircuit == "a*b=c"

OtherCircuit == "other"

\* vortex_constants::verifying_key!(): the verification key embedded in
\* the package, derived from the repository's circuit
verifying_key == [wellFormed |-> TRUE, circuit |-> VortexCircuit]

\* Byte strings that do not decode to three curve points
GarbageBytes == [form |-> "garbage", circuit |-> "none", public |-> << >>]

\* Three well-formed curve points that satisfy the pairing equation of no
\* key and no public input (a tampered proof)
TamperedProof == [form |-> "points", circuit |-> "none", public |-> << >>]

\* prove(witnessJson, provingKeyHex) of the circuit package: the proof of
\* a satisfied witness carries c as its only public input
prove(witness, provingKey) ==
    IF ~provingKey.wellFormed
    THEN [thrown |-> "MalformedKey", publicInputs |-> << >>,
          proofSerializedHex |-> GarbageBytes]
    ELSE IF witness.c # witness.a * witness.b
    THEN [thrown |-> "WitnessUnsatisfiable", publicInputs |-> << >>,
          proofSerializedHex |-> GarbageBytes]
    ELSE [thrown |-> "none", publicInputs |-> <<witness.c>>,
          proofSerializedHex |->
              [form |-> "points", circuit |-> provingKey.circuit,
               public |-> bcs_to_bytes(FromNat(witness.c))]]

\* verify(proofJson, verificationKeyHex) of the circuit package
verify(proofJson, verificationKey) ==
    IF ~verificationKey.wellFormed
    THEN [thrown |-> "MalformedKey", result |-> FALSE]
    ELSE [thrown |-> "none",
          result |-> /\ proofJson.proofSerializedHex.form = "points"
                     /\ proofJson.proofSerializedHex.circuit
                            = verificationKey.circuit]

\* The contents the two key files can have
KeyFiles ==
    { [wellFormed |-> TRUE, circuit |-> VortexCircuit],
      [wellFormed |-> TRUE, circuit |-> OtherCircuit],
      [wellFormed |-> FALSE, circuit |-> "none"] }

\* transact.ts: the witness of the client
ClientA == 5

ClientB == 6

ClientWitness == [a |-> ClientA, b |-> ClientB, c |-> ClientA * ClientB]

\* Proof bytes a caller of transact can hold: proofs made with the proving
\* key of either circuit, a tampered proof, and undecodable bytes
ProofBytes ==
    {prove([a |-> a, b |-> b, c |-> a * b],
           [wellFormed |-> TRUE, circuit |-> VortexCircuit]).proofSerializedHex :
        a \in 0 .. MaxWitness, b \in 0 .. MaxWitness}
    \cup {prove(ClientWitness, k).proofSerializedHex :
            k \in {f \in KeyFiles : f.wellFormed}}
    \cup {TamperedProof, GarbageBytes}

\* ------------------------------------------------------------------------
\* sui::groth16 as called by vortex.move
\* ------------------------------------------------------------------------

bn254 == "bn254"

prepare_verifying_key(curve, vk) ==
    [curve |-> curve, circuit |-> vk.circuit]

\* Aborts unless the bytes are a whole number of 32-byte scalars
public_proof_inputs_from_bytes(bytes) ==
    [aborted |-> Len(bytes) % U256Bytes # 0, bytes |-> bytes]

\* Wraps the bytes; they are decoded by the verification itself
proof_points_from_bytes(bytes) == [bytes |-> bytes]

\* The pairing check: false for bytes that do not decode, and for points
\* that do not satisfy the equation for this key and these inputs
verify_groth16_proof(curve, pvk, inputs, points) ==
    /\ points.bytes.form = "points"
    /\ curve = pvk.curve
    /\ points.bytes.circuit = pvk.circuit
    /\ points.bytes.public = inputs.bytes

\* ------------------------------------------------------------------------
\* vortex.move
\* ------------------------------------------------------------------------

VARIABLES
    vortex,     \* the shared Vortex object: its state, curve and vk
    first,      \* the first transact call the ledger executed
    last,       \* the latest transact call the ledger executed
    calls,      \* how many transact calls the ledger executed
    client      \* the run of the client script

vars == <<vortex, first, last, calls, client>>

Success == [status |-> "success", code |-> 0, location |-> "none"]

\* assert!(..., 0) of transact
AssertCode == 0

AssertAbort == [status |-> "abort", code |-> AssertCode, location |-> "vortex::transact"]

ArithmeticAbort == [status |-> "abort", code |-> 0, location |-> "arithmetic"]

ScalarAbort == [status |-> "abort", code |-> 3, location |-> "groth16"]

\* bcs::to_bytes(&(ctx.sender().to_u256() / BN254_FIELD_MODULUS)), for
\* every sender of the model
recipient_field ==
    [sender \in Identities |->
        LET q == U256Div(to_u256(sender), BN254_FIELD_MODULUS)
        IN  [aborted |-> q.aborted, bytes |-> bcs_to_bytes(q.value)]]

\* As TransactOutcome, with the proof points decoded before the check and
\* an abort code of its own for bytes that do not decode.
TransactOutcomeDecodeAbort(self, proof_points, sender) ==
    LET field == recipient_field[sender]
        inputs == public_proof_inputs_from_bytes(field.bytes)
    IN  IF field.aborted THEN ArithmeticAbort
        ELSE IF inputs.aborted THEN ScalarAbort
        ELSE IF proof_points.form # "points"
        THEN [status |-> "abort", code |-> 1, location |-> "vortex::transact"]
        ELSE IF verify_groth16_proof(self.curve, self.vk, inputs,
                                     proof_points_from_bytes(proof_points))
        THEN Success
        ELSE AssertAbort

\* The outcome of transact(self, proof_points, ctx) for ctx.sender() = sender
TransactOutcome(self, proof_points, sender) ==
    LET field == recipient_field[sender]
        inputs == public_proof_inputs_from_bytes(field.bytes)
    IN  IF field.aborted THEN ArithmeticAbort
        ELSE IF inputs.aborted THEN ScalarAbort
        ELSE IF verify_groth16_proof(self.curve, self.vk, inputs,
                                     proof_points_from_bytes(proof_points))
        THEN Success
        ELSE AssertAbort

NoCall ==
    [sender |-> << >>, proof_points |-> GarbageBytes,
     recipient_field |-> << >>,
     outcome |-> [status |-> "none", code |-> 0, location |-> "none"]]

Call(self, proof_points, sender) ==
    [sender |-> sender, proof_points |-> proof_points,
     recipient_field |-> recipient_field[sender].bytes,
     outcome |-> TransactOutcome(self, proof_points, sender)]

NoVortex == [state |-> "Uninitialized", curve |-> "none",
             vk |-> [curve |-> "none", circuit |-> "none"]]

\* fun init: runs once, when the package is published
init ==
    /\ vortex.state = "Uninitialized"
    /\ vortex' = [state |-> "Ready", curve |-> bn254,
                  vk |-> prepare_verifying_key(bn254, verifying_key)]
    /\ UNCHANGED <<first, last, calls, client>>

\* As transact, using the mutable reference: an accepted call clears the
\* stored key, so that no proof is accepted twice.
transactSpendsKey(proof_points, sender) ==
    /\ vortex.state = "Ready"
    /\ last' = Call(vortex, proof_points, sender)
    /\ first' = IF first = NoCall THEN last' ELSE first
    /\ calls' = IF calls < MaxCounted THEN calls + 1 ELSE calls
    /\ vortex' = IF last'.outcome = Success
                 THEN [vortex EXCEPT !.vk.circuit = "none"]
                 ELSE vortex
    /\ UNCHANGED client

\* As transact, using the mutable reference: every call prepares the key
\* again, for the second curve of sui::groth16.
transactRepreparesKey(proof_points, sender) ==
    /\ vortex.state = "Ready"
    /\ last' = Call(vortex, proof_points, sender)
    /\ first' = IF first = NoCall THEN last' ELSE first
    /\ calls' = IF calls < MaxCounted THEN calls + 1 ELSE calls
    /\ vortex' = [vortex EXCEPT
                    !.curve = "bls12381",
                    !.vk = prepare_verifying_key("bls12381", verifying_key)]
    /\ UNCHANGED client

\* public fun transact, called by any sender with any proof bytes
transact(proof_points, sender) ==
    /\ vortex.state = "Ready"
    /\ last' = Call(vortex, proof_points, sender)
    /\ first' = IF first = NoCall THEN last' ELSE first
    /\ calls' = IF calls < MaxCounted THEN calls + 1 ELSE calls
    /\ UNCHANGED <<vortex, client>>

\* ------------------------------------------------------------------------
\* transact.ts
\* ------------------------------------------------------------------------

NoKey == [wellFormed |-> FALSE, circuit |-> "none"]

NoProof == [thrown |-> "none", publicInputs |-> << >>,
            proofSerializedHex |-> GarbageBytes]

NoTx == [function |-> "none", arguments |-> << >>]

NoResult == [status |-> "none", code |-> 0, location |-> "none"]

ArityFailure == [status |-> "failure", code |-> 0, location |-> "arguments"]

ObjectFailure == [status |-> "failure", code |-> 0, location |-> "object"]

ClientStart ==
    [pc |-> "load", signer |-> << >>, verificationKey |-> NoKey,
     proveThrown |-> "none", proofJson |-> NoProof, isVerified |-> FALSE,
     tx |-> NoTx, submitted |-> FALSE, txResult |-> NoResult]

\* The parameters of transact a caller supplies (the TxContext is supplied
\* by the ledger)
TransactParameters == <<"object", "vector<u8>">>

ArgumentKinds(arguments) ==
    SubSeq([i \in 1 .. Len(arguments) |-> arguments[i].kind], 1, Len(arguments))

\* The ledger executing a transaction that calls vortex::transact
ExecuteMoveCall(self, tx, sender) ==
    IF self.state # "Ready" THEN ObjectFailure
    ELSE IF ArgumentKinds(tx.arguments) # TransactParameters THEN ArityFailure
    ELSE TransactOutcome(self, tx.arguments[2].value, sender)

\* Module level: the signing key pair is read from the environment
ClientLoad ==
    /\ client.pc = "load"
    /\ \E signer \in Identities :
          client' = [client EXCEPT !.pc = "main", !.signer = signer]
    /\ UNCHANGED <<vortex, first, last, calls>>

\* As ClientProve, with a failure of prove swallowed and the run going on.
ClientProveSwallowsThrow ==
    /\ client.pc = "main"
    /\ \E provingKey \in KeyFiles, verificationKey \in KeyFiles :
          LET proofJson == prove(ClientWitness, provingKey)
          IN  client' = [client EXCEPT !.pc = "proved",
                                       !.proveThrown = proofJson.thrown,
                                       !.verificationKey = verificationKey,
                                       !.proofJson = proofJson]
    /\ UNCHANGED <<vortex, first, last, calls>>

\* main(), both key files read, prove(...) and JSON.parse
ClientProve ==
    /\ client.pc = "main"
    /\ \E provingKey \in KeyFiles, verificationKey \in KeyFiles :
          LET proofJson == prove(ClientWitness, provingKey)
          IN  IF proofJson.thrown # "none"
              THEN client' = [client EXCEPT !.pc = "caught",
                                            !.proveThrown = proofJson.thrown]
              ELSE client' = [client EXCEPT !.pc = "proved",
                                            !.verificationKey = verificationKey,
                                            !.proofJson = proofJson]
    /\ UNCHANGED <<vortex, first, last, calls>>

\* const isVerified = verify(proofJson, verificationKey); console.log
ClientVerify ==
    /\ client.pc = "proved"
    /\ LET v == verify(client.proofJson, client.verificationKey)
       IN  IF v.thrown # "none"
           THEN client' = [client EXCEPT !.pc = "caught"]
           ELSE client' = [client EXCEPT !.pc = "verified",
                                         !.isVerified = v.result]
    /\ UNCHANGED <<vortex, first, last, calls>>

\* tx.moveCall({... function: 'transact', arguments: [...]})
ClientMoveCall ==
    /\ client.pc = "verified"
    /\ client' =
         [client EXCEPT
            !.pc = "built",
            !.tx = [function |-> "transact",
                    arguments |->
                      << [kind |-> "object", value |-> GarbageBytes],
                         [kind |-> "vector<u8>",
                          value |-> client.proofJson.proofSerializedHex],
                         [kind |-> "u256", value |-> GarbageBytes] >>]]
    /\ UNCHANGED <<vortex, first, last, calls>>

\* await suiClient.signAndExecuteTransaction({transaction: tx, signer})
ClientSubmit ==
    /\ client.pc = "built"
    /\ LET result == ExecuteMoveCall(vortex, client.tx, client.signer)
           executed == result.status \in {"success", "abort"}
           call == Call(vortex, client.tx.arguments[2].value, client.signer)
       IN  /\ client' = [client EXCEPT !.pc = "done", !.submitted = TRUE,
                                       !.txResult = result]
           /\ last' = IF executed THEN call ELSE last
           /\ first' = IF executed /\ first = NoCall THEN call ELSE first
           /\ calls' = IF executed /\ calls < MaxCounted THEN calls + 1
                       ELSE calls
    /\ UNCHANGED vortex

\* ------------------------------------------------------------------------
\* Specifications
\* ------------------------------------------------------------------------

Init ==
    /\ vortex = NoVortex
    /\ first = NoCall
    /\ last = NoCall
    /\ calls = 0
    /\ client = ClientStart

\* The ledger: the package is published, then anyone calls transact.
Next ==
    \/ init
    \/ \E proof_points \in ProofBytes, sender \in Identities :
          transact(proof_points, sender)

Spec == Init /\ [][Next]_vars

\* One run of the client script against the ledger.
ClientNext ==
    \/ init
    \/ ClientLoad
    \/ ClientProve
    \/ ClientVerify
    \/ ClientMoveCall
    \/ ClientSubmit

ClientSpec == Init /\ [][ClientNext]_vars

\* ------------------------------------------------------------------------
\* Properties
\* ------------------------------------------------------------------------

\* The sender reduced modulo the field order, as 32 bytes, for every sender
\* of the model
sender_mod_field ==
    [sender \in Identities |->
        bcs_to_bytes(DivMod(to_u256(sender), BN254_FIELD_MODULUS).rem)]

\* C1: the public input transact computes from the sender X is
\* X mod BN254_FIELD_MODULUS.
C1_RecipientIsSenderModField ==
    last # NoCall => last.recipient_field = sender_mod_field[last.sender]

\* C2: proof bytes transact accepted for sender X are rejected when they
\* are submitted by another sender Y.
C2_ProofBoundToSender ==
    (/\ first.outcome = Success
     /\ last.proof_points = first.proof_points
     /\ last.sender # first.sender)
    => last.outcome.status = "abort"

\* C3: in a run of the client with the keys of the circuit, the public
\* input of the generated proof is the one transact recomputes from the
\* signer, and the submitted call is accepted.
C3_HonestRunAccepted ==
    (/\ client.pc = "done"
     /\ vortex.state = "Ready"
     /\ client.proofJson.proofSerializedHex.circuit = VortexCircuit
     /\ client.isVerified)
    => /\ client.proofJson.proofSerializedHex.public
            = recipient_field[client.signer].bytes
       /\ client.txResult = Success

\* C4: a transact call that fails, on bytes that do not decode or on a
\* failed pairing check, aborts with the one abort of transact and leaves
\* the Vortex object as it was.
C4_OpaqueAtomicAbort ==
    [][last'.outcome.status = "abort"
          => (last'.outcome = AssertAbort /\ vortex' = vortex)]_vars

C4_Witness ==
    /\ first.proof_points = GarbageBytes
    /\ first.outcome = AssertAbort
    /\ last.proof_points.form = "points"
    /\ last.outcome = AssertAbort

\* C5: once Ready, the Vortex object holds the curve and the prepared key
\* init stored, whatever transact calls were executed, and it is Ready
\* whenever a call was executed.
C5_KeyNeverChanges ==
    /\ vortex.state = "Ready"
          => /\ vortex.curve = bn254
             /\ vortex.vk = prepare_verifying_key(bn254, verifying_key)
    /\ last # NoCall => vortex.state = "Ready"

C5_Witness ==
    /\ calls >= 2
    /\ first.outcome = Success
    /\ last.outcome = AssertAbort
    /\ vortex.state = "Ready"

\* C6: the client submits the transaction only if the local verify
\* returned true.
C6_SubmitsOnlyVerified == client.submitted => client.isVerified

\* C7: the arguments of the client's call are the parameters transact
\* declares, in number and type.
C7_ArgumentsMatch ==
    client.tx # NoTx => ArgumentKinds(client.tx.arguments) = TransactParameters

\* C8: when prove fails, the client ends without a proof, without a built
\* call and without a submission.
C8_FailedProveSubmitsNothing ==
    client.proveThrown # "none"
    => /\ client.pc = "caught"
       /\ client.proofJson = NoProof
       /\ client.tx = NoTx
       /\ ~client.submitted
       /\ client.txResult = NoResult

C8_Witness ==
    /\ client.proveThrown = "MalformedKey"
    /\ client.pc = "caught"
    /\ client.signer \in Identities

\* C9: the same proof bytes and sender get the same outcome, whatever calls
\* were executed in between.
C9_OutcomeIndependentOfHistory ==
    (last.proof_points = first.proof_points /\ last.sender = first.sender)
    => last.outcome = first.outcome

C9_Witness ==
    /\ calls >= 3
    /\ last.proof_points = first.proof_points
    /\ last.sender = first.sender
    /\ first.outcome = Success

\* C10: the value transact computes from the sender is below the field
\* order, computing it does not abort, and it is passed to the verifier as
\* one 32-byte element.
C10_RecipientIsCanonical ==
    last # NoCall
    => /\ last.outcome.location \notin {"arithmetic", "groth16"}
       /\ Len(last.recipient_field) = U256Bytes
       /\ Less(Norm(last.recipient_field), BN254_FIELD_MODULUS)

C10_Witness ==
    /\ last.sender = AddressOf(MaxU256)
    /\ last.recipient_field = bcs_to_bytes(FromNat(5))
====
